---- MODULE Spec2Model ----
(***************************************************************************)
(* Model of the PDF outline extractor (src/pdf_processor.py, src/main.py). *)
(*                                                                         *)
(* Texts are sequences of one-character strings.  Lengths, font sizes and  *)
(* page coordinates are integers in hundredths of a point, so that the     *)
(* float comparisons of the source become exact integer comparisons.       *)
(***************************************************************************)
EXTENDS Integers, Sequences, FiniteSets, TLC

(***************************************************************************)
(* Characters and the str methods the source uses.                         *)
(***************************************************************************)
UpperLetters ==
    {"A","B","C","D","E","F","G","H","I","J","K","L","M",
     "N","O","P","Q","R","S","T","U","V","W","X","Y","Z"}

LowerLetters ==
    {"a","b","c","d","e","f","g","h","i","j","k","l","m",
     "n","o","p","q","r","s","t","u","v","w","x","y","z"}

Digits == {"0","1","2","3","4","5","6","7","8","9"}

\* \s of the re module, restricted to the characters a text of the model has
Whitespace == {" ", "\t", "\n"}

\* \w of the re module
WordChars == UpperLetters \cup LowerLetters \cup Digits \cup {"_"}

\* the character class of the bullet pattern (line 154)
BulletChars == {"â", "€", "¢", "-"}

LowerOf ==
    [c \in UpperLetters |->
        CASE c = "A" -> "a" [] c = "B" -> "b" [] c = "C" -> "c" [] c = "D" -> "d"
          [] c = "E" -> "e" [] c = "F" -> "f" [] c = "G" -> "g" [] c = "H" -> "h"
          [] c = "I" -> "i" [] c = "J" -> "j" [] c = "K" -> "k" [] c = "L" -> "l"
          [] c = "M" -> "m" [] c = "N" -> "n" [] c = "O" -> "o" [] c = "P" -> "p"
          [] c = "Q" -> "q" [] c = "R" -> "r" [] c = "S" -> "s" [] c = "T" -> "t"
          [] c = "U" -> "u" [] c = "V" -> "v" [] c = "W" -> "w" [] c = "X" -> "x"
          [] c = "Y" -> "y" [] c = "Z" -> "z"]

\* str.lower()
Lower(t) == [k \in 1..Len(t) |-> IF t[k] \in UpperLetters THEN LowerOf[t[k]] ELSE t[k]]

\* any(c.isalpha() for c in text)
HasAlpha(t) == \E k \in 1..Len(t) : t[k] \in UpperLetters \cup LowerLetters

\* str.strip()
Strip(t) ==
    LET keep == {k \in 1..Len(t) : t[k] \notin Whitespace}
    IN  IF keep = {} THEN << >>
        ELSE LET lo == CHOOSE k \in keep : \A jx \in keep : k <= jx
                 hi == CHOOSE k \in keep : \A jx \in keep : jx <= k
             IN  SubSeq(t, lo, hi)

\* the first characters of the words of str.split()
WordStarts(t) ==
    {k \in 1..Len(t) : t[k] \notin Whitespace /\ (k = 1 \/ t[k-1] \in Whitespace)}

\* len(text.split())
WordCount(t) == Cardinality(WordStarts(t))

\* needle in text
Contains(t, needle) ==
    \E k \in 0..(Len(t) - Len(needle)) :
        \A jx \in 1..Len(needle) : t[k + jx] = needle[jx]

(***************************************************************************)
(* difflib.SequenceMatcher(None, a, b).ratio(), without the autojunk       *)
(* heuristic, which only acts on a second sequence of 200 or more items.   *)
(***************************************************************************)
\* length of the common run of a[i..ahi] and b[j..bhi] starting at i and j
MatchLen(a, b, ix, jx, ahi, bhi) ==
    LET room == IF ahi - ix < bhi - jx THEN ahi - ix + 1 ELSE bhi - jx + 1
    IN  CHOOSE k \in 0..room :
            /\ \A d \in 0..(k - 1) : a[ix + d] = b[jx + d]
            /\ k = room \/ a[ix + k] # b[jx + k]

\* find_longest_match: the longest common block, the earliest in a, then in b
FindLongestMatch(a, b, alo, ahi, blo, bhi) ==
    LET runs == [p \in (alo..ahi) \X (blo..bhi) |->
                    MatchLen(a, b, p[1], p[2], ahi, bhi)]
        best == CHOOSE k \in {runs[p] : p \in DOMAIN runs} :
                    \A p \in DOMAIN runs : runs[p] <= k
        bi   == CHOOSE ix \in alo..ahi :
                    /\ \E jx \in blo..bhi : runs[<<ix, jx>>] = best
                    /\ \A i2 \in alo..(ix - 1) : \A jx \in blo..bhi : runs[<<i2, jx>>] # best
        bj   == CHOOSE jx \in blo..bhi :
                    /\ runs[<<bi, jx>>] = best
                    /\ \A j2 \in blo..(jx - 1) : runs[<<bi, j2>>] # best
    IN  [i |-> bi, j |-> bj, size |-> best]

RECURSIVE Matches(_, _, _, _, _, _)
\* the total size of get_matching_blocks() over a[alo..ahi], b[blo..bhi]
Matches(a, b, alo, ahi, blo, bhi) ==
    IF alo > ahi \/ blo > bhi THEN 0
    ELSE LET m == FindLongestMatch(a, b, alo, ahi, blo, bhi)
         IN  IF m.size = 0 THEN 0
             ELSE m.size
                  + Matches(a, b, alo, m.i - 1, blo, m.j - 1)
                  + Matches(a, b, m.i + m.size, ahi, m.j + m.size, bhi)

\* ratio() > 0.85: ratio() is 2*M/T, and 1.0 for two empty sequences
RatioAboveThreshold(a, b) ==
    IF Len(a) + Len(b) = 0 THEN TRUE
    ELSE 200 * Matches(a, b, 1, Len(a), 1, Len(b)) > 85 * (Len(a) + Len(b))

(***************************************************************************)
(* The regular expressions of _extract_headings, matched as re.match does: *)
(* from the start of the text, as the set of positions a prefix of the     *)
(* pattern can end at.                                                     *)
(***************************************************************************)
\* the positions reached from a position of P by lo..hi characters of class
Consume(t, P, class, lo, hi) ==
    {q \in 1..(Len(t) + 1) :
        \E p \in P : /\ q - p >= lo
                     /\ q - p <= hi
                     /\ \A k \in p..(q - 1) : t[k] \in class}

\* the characters . matches: every character of t but the newline
Dot(t) == {t[k] : k \in 1..Len(t)} \ {"\n"}

\* $ : the end of the text, or just before a newline that ends it
AtEnd(t, P) ==
    \/ Len(t) + 1 \in P
    \/ Len(t) >= 1 /\ t[Len(t)] = "\n" /\ Len(t) \in P

\* r'^.*\.{2,}\s*\d+\s*$'  (line 148)
DottedTocEntry(t) ==
    LET n  == Len(t)
        p1 == Consume(t, {1}, Dot(t), 0, n)
        p2 == Consume(t, p1, {"."}, 2, n)
        p3 == Consume(t, p2, Whitespace, 0, n)
        p4 == Consume(t, p3, Digits, 1, n)
        p5 == Consume(t, p4, Whitespace, 0, n)
    IN  AtEnd(t, p5)

\* r'^\d+\.\d+\s+\d{1,2} [A-Z]{3,9} \d{4}\s+.+$'  (line 151)
VersionTableEntry(t) ==
    LET n   == Len(t)
        p1  == Consume(t, {1}, Digits, 1, n)
        p2  == Consume(t, p1, {"."}, 1, 1)
        p3  == Consume(t, p2, Digits, 1, n)
        p4  == Consume(t, p3, Whitespace, 1, n)
        p5  == Consume(t, p4, Digits, 1, 2)
        p6  == Consume(t, p5, {" "}, 1, 1)
        p7  == Consume(t, p6, UpperLetters, 3, 9)
        p8  == Consume(t, p7, {" "}, 1, 1)
        p9  == Consume(t, p8, Digits, 4, 4)
        p10 == Consume(t, p9, Whitespace, 1, n)
        p11 == Consume(t, p10, Dot(t), 1, n)
    IN  AtEnd(t, p11)

\* r'^[...\-]\s*\w+'  (line 154)
BulletPoint(t) ==
    LET n  == Len(t)
        p1 == Consume(t, {1}, BulletChars, 1, 1)
        p2 == Consume(t, p1, Whitespace, 0, n)
        p3 == Consume(t, p2, WordChars, 1, n)
    IN  p3 # {}

\* r'^\(?\d+\)?[\.\)]?\s+\w+'  (line 157)
NumberedParagraph(t) ==
    LET n  == Len(t)
        p1 == Consume(t, {1}, {"("}, 0, 1)
        p2 == Consume(t, p1, Digits, 1, n)
        p3 == Consume(t, p2, {")"}, 0, 1)
        p4 == Consume(t, p3, {".", ")"}, 0, 1)
        p5 == Consume(t, p4, Whitespace, 1, n)
        p6 == Consume(t, p5, WordChars, 1, n)
    IN  p6 # {}

\* r'^\d+\.\s'  (line 173)
TopLevelNumbered(t) ==
    LET n  == Len(t)
        p1 == Consume(t, {1}, Digits, 1, n)
        p2 == Consume(t, p1, {"."}, 1, 1)
        p3 == Consume(t, p2, Whitespace, 1, 1)
    IN  p3 # {}

\* r'^\d+\.\d+\s'  (line 173)
TwoLevelNumbered(t) ==
    LET n  == Len(t)
        p1 == Consume(t, {1}, Digits, 1, n)
        p2 == Consume(t, p1, {"."}, 1, 1)
        p3 == Consume(t, p2, Digits, 1, n)
        p4 == Consume(t, p3, Whitespace, 1, 1)
    IN  p4 # {}

(***************************************************************************)
(* Typographic features and the score.                                     *)
(***************************************************************************)
\* _is_all_caps: str.isupper() and some letter
IsAllCaps(t) ==
    /\ \A k \in 1..Len(t) : t[k] \notin LowerLetters
    /\ \E k \in 1..Len(t) : t[k] \in UpperLetters
    /\ HasAlpha(t)

\* _is_title_case: the first character of every word is an upper-case letter
IsTitleCase(t) == \A k \in WordStarts(t) : t[k] \in UpperLetters

\* the defaults of the constructor; the ratios in tenths and in percent
FontSizeThresholdTenths == 12
MinHeadingScore == 60
TocSkipPages == 2
HeaderFooterPercent == 10

\* _calculate_heading_score, times 1000 (sizes and spacing are in hundredths)
HeadingScore(t, fontSize, isBold, spacing) ==
      (IF IsAllCaps(t) THEN 20000 ELSE 0)
    + (IF IsTitleCase(t) THEN 10000 ELSE 0)
    + (IF isBold THEN 10000 ELSE 0)
    + fontSize * FontSizeThresholdTenths
    + spacing * 5

\* round(font_size, 1) of a size in hundredths (no size of the model is a tie)
Round1(size) == 10 * ((size + 5) \div 10)

(***************************************************************************)
(* Texts of the model.                                                     *)
(***************************************************************************)
\* "table of contents"
TocNeedle ==
    <<"t","a","b","l","e"," ","o","f"," ","c","o","n","t","e","n","t","s">>

\* "Table of Contents"
TocHeadingText ==
    <<"T","a","b","l","e"," ","o","f"," ","C","o","n","t","e","n","t","s">>

\* "Untitled Document"
UntitledDocument ==
    <<"U","n","t","i","t","l","e","d"," ","D","o","c","u","m","e","n","t">>

\* "Table of Contents Part 2"
TxtTocLong ==
    <<"T","a","b","l","e"," ","o","f"," ","C","o","n","t","e","n","t","s"," ","P","a","r","t"," ","2">>

\* "Intro"
TxtIntro ==
    <<"I","n","t","r","o">>

\* "Intros"
TxtIntros ==
    <<"I","n","t","r","o","s">>

\* "INTRO"
TxtIntroCaps ==
    <<"I","N","T","R","O">>

\* "Overview "
TxtOverview ==
    <<"O","v","e","r","v","i","e","w"," ">>

\* "SUMMARY"
TxtSummary ==
    <<"S","U","M","M","A","R","Y">>

\* "12. Introduction"
TxtNumbered ==
    <<"1","2","."," ","I","n","t","r","o","d","u","c","t","i","o","n">>

\* "1.2 scope"
TxtTwoLevel ==
    <<"1",".","2"," ","s","c","o","p","e">>

\* "Scope .... 4"
TxtDotted ==
    <<"S","c","o","p","e"," ",".",".",".","."," ","4">>

\* "1.0 1 JAN 2020 Draft"
TxtVersion ==
    <<"1",".","0"," ","1"," ","J","A","N"," ","2","0","2","0"," ","D","r","a","f","t">>

\* "- item"
TxtBullet ==
    <<"-"," ","i","t","e","m">>

\* "ab"
TxtShort ==
    <<"a","b">>

\* "a b c d e f g h i j k"
TxtBody ==
    <<"a"," ","b"," ","c"," ","d"," ","e"," ","f"," ","g"," ","h"," ","i"," ","j"," ","k">>

\* " Annual Report "
TxtMetaTitle ==
    <<" ","A","n","n","u","a","l"," ","R","e","p","o","r","t"," ">>

(***************************************************************************)
(* Documents.  pdfplumber supplies characters; the model supplies them     *)
(* grouped: a block is one line of _group_chars_into_blocks (characters of *)
(* one baseline y0), with the text of _block_text, the y0 of its first     *)
(* character, the largest size of its characters and the verdict of        *)
(* _is_font_bold.  top, the distance of the first character from the top   *)
(* of the page, is page height - y0 - size.                                *)
(***************************************************************************)
PageHeight == 792 * 100
PageWidth == 612 * 100

MkBlock(text, y0, size, bold) ==
    [text |-> text, y0 |-> y0, top |-> PageHeight - y0 - size,
     size |-> size, bold |-> bold]

\* the tolerance of _group_chars_into_blocks (line 45), in points
BlockGapTolerance == 5

\* bounds of the model
MaxPages == 4
MaxBlocks == 3
MaxDocs == 2

\* a block template: what a block is apart from its vertical position
Tpl(text, size, bold) == [text |-> text, size |-> size, bold |-> bold]

\* the blocks the documents of a family may hold on the page of loop index i
Menu(fam, ix) ==
    CASE fam = "patterns" ->
            IF ix > 0 THEN {}
            ELSE {Tpl(TxtNumbered, 1200, FALSE), Tpl(TxtTwoLevel, 900, FALSE),
                  Tpl(TxtDotted, 1200, FALSE), Tpl(TxtVersion, 1200, FALSE),
                  Tpl(TxtBullet, 1200, FALSE), Tpl(TxtShort, 1200, FALSE),
                  Tpl(TxtBody, 1200, FALSE), Tpl(TxtBody, 900, TRUE),
                  Tpl(TxtSummary, 1400, TRUE), Tpl(TxtIntro, 1200, FALSE)}
      [] fam = "toc" ->
            {Tpl(TxtTocLong, 1404, TRUE), Tpl(TocHeadingText, 1400, TRUE),
             Tpl(TxtOverview, 1200, FALSE)}
      [] fam = "dedup" ->
            IF ix > 1 THEN {}
            ELSE {Tpl(TxtIntro, 1600, FALSE), Tpl(TxtIntros, 2000, FALSE),
                  Tpl(TxtIntroCaps, 1204, TRUE), Tpl(TxtOverview, 1200, FALSE)}
      [] fam = "levels" ->
            {Tpl(TxtIntro, 2400 - 400 * ix, TRUE), Tpl(TxtOverview, 2200 - 400 * ix, FALSE)}
      [] fam = "batch" ->
            IF ix > 0 THEN {}
            ELSE {Tpl(TxtBullet, 1200, FALSE), Tpl(TxtOverview, 1200, FALSE)}

\* the baselines a block of a family may have
YLevels(fam) ==
    CASE fam = "patterns" -> {75000, 30000}
      [] fam = "toc"      -> {60000}
      [] fam = "dedup"    -> {60000, 30000}
      [] fam = "levels"   -> {60000, 30000}
      [] fam = "batch"    -> {75000, 30000}

\* a run of first-page characters of one size, one baseline and one x0 band
Run(text, size, x0, y0) == [text |-> text, size |-> size, x0 |-> x0, y0 |-> y0]

NoMetadata == [has |-> FALSE]
Metadata(t) == [has |-> TRUE, Title |-> t]

\* a first page and the document metadata
FirstPage(chars, meta) == [chars |-> chars, width |-> PageWidth, meta |-> meta]

FpIntro ==
    FirstPage(<<Run(TxtBody, 1000, 10000, 40000), Run(TxtIntro, 2400, 25000, 60000)>>,
              NoMetadata)
FpToc ==
    FirstPage(<<Run(<<"C","o","n","t","e","n","t","s">>, 2400, 30000, 60000),
                Run(<<"T","a","b","l","e"," ","\n","o","f"," ">>, 2200, 15000, 60000),
                Run(TxtShort, 2400, 55000, 60000)>>,
              Metadata(TxtMetaTitle))
FpMeta == FirstPage(<< >>, Metadata(TxtMetaTitle))
FpBare == FirstPage(<<Run(TxtIntro, 2400, 5000, 60000)>>, Metadata(<<" ">>))

FirstPages(fam) ==
    CASE fam = "patterns" -> {FpIntro}
      [] fam = "toc"      -> {FpToc, FpMeta}
      [] fam = "dedup"    -> {FpMeta}
      [] fam = "levels"   -> {FpBare}
      [] fam = "batch"    -> {FpIntro}

Families == {"patterns", "toc", "dedup", "levels", "batch"}

\* how many documents one processor is given, and how many blocks a document has
DocsOf(fam) == IF fam = "batch" THEN MaxDocs ELSE 1
BlocksOf(fam) == IF fam = "levels" THEN 2 * MaxBlocks ELSE MaxBlocks

(***************************************************************************)
(* _extract_title                                                          *)
(***************************************************************************)
RECURSIVE InsertRun(_, _)
\* insert run r into the sorted sequence s, after the runs of an equal key
InsertRun(s, r) ==
    IF s = << >> THEN <<r>>
    ELSE IF r.y0 > s[1].y0 \/ (r.y0 = s[1].y0 /\ r.x0 < s[1].x0)
         THEN <<r>> \o s
         ELSE <<s[1]>> \o InsertRun(Tail(s), r)

RECURSIVE SortRuns(_)
\* list.sort(key=lambda c: (-y0, x0)), a stable sort
SortRuns(s) ==
    IF s = << >> THEN << >>
    ELSE InsertRun(SortRuns(SubSeq(s, 1, Len(s) - 1)), s[Len(s)])

RECURSIVE JoinRuns(_)
\* ''.join(...)
JoinRuns(s) == IF s = << >> THEN << >> ELSE s[1].text \o JoinRuns(Tail(s))

RECURSIVE CollapseWhitespace(_, _)
\* re.sub(r'\s+', ' ', text), from position k on
CollapseWhitespace(t, k) ==
    IF k > Len(t) THEN << >>
    ELSE IF t[k] \notin Whitespace THEN <<t[k]>> \o CollapseWhitespace(t, k + 1)
    ELSE IF k > 1 /\ t[k - 1] \in Whitespace THEN CollapseWhitespace(t, k + 1)
    ELSE <<" ">> \o CollapseWhitespace(t, k + 1)

\* text.split('\n')[0]
FirstLine(t) ==
    LET nl == {k \in 1..Len(t) : t[k] = "\n"}
    IN  IF nl = {} THEN t
        ELSE SubSeq(t, 1, (CHOOSE k \in nl : \A jx \in nl : k <= jx) - 1)

\* the lengths the title is cut to (line 204) and the share of the largest size
TitleMaxLen == 100
TitleSizePercent == 90

RunMaxSize(chars) ==
    CHOOSE m \in {chars[k].size : k \in 1..Len(chars)} :
        \A k \in 1..Len(chars) : chars[k].size <= m

ExtractTitle(d) ==
    LET first == d.first
        chars == first.chars
        large == SelectSeq(chars, LAMBDA c : c.size * 100 >= RunMaxSize(chars) * TitleSizePercent)
        central == SelectSeq(large, LAMBDA c : /\ 2 * first.width < 10 * c.x0
                                               /\ 10 * c.x0 < 8 * first.width)
        text  == JoinRuns(SortRuns(central))
        line  == FirstLine(CollapseWhitespace(text, 1))
        ttl == Strip(SubSeq(line, 1, IF Len(line) < TitleMaxLen THEN Len(line) ELSE TitleMaxLen))
        meta  == first.meta
    IN  IF d.numPages >= 1 /\ chars # << >> /\ central # << >> /\ ttl # << >>
        THEN ttl
        ELSE IF meta.has /\ meta.Title # << >> /\ Strip(meta.Title) # << >>
             THEN Strip(meta.Title)
             ELSE UntitledDocument

(***************************************************************************)
(* _similar.  The ratio is computed once for the pairs of texts that the   *)
(* documents of the model can bring together, and looked up after that.    *)
(***************************************************************************)
BlockTexts ==
    {Strip(tp.text) : tp \in UNION {Menu(fam, k) : fam \in Families, k \in 0..MaxPages}}

Titles ==
    {ExtractTitle([valid |-> TRUE, numPages |-> 1, first |-> fp]) :
        fp \in UNION {FirstPages(fam) : fam \in Families}}

LoweredTexts == {Lower(t) : t \in BlockTexts \cup {TocHeadingText}}

TabledPairs == (BlockTexts \X Titles) \cup (LoweredTexts \X LoweredTexts)

\* the tabled pairs whose ratio is above the threshold, as an enumerated set
SimilarPairs == {p : p \in {q \in TabledPairs : RatioAboveThreshold(q[1], q[2])}}

\* _similar: SequenceMatcher(None, a, b).ratio() > 0.85
Similar(a, b) ==
    IF <<a, b>> \in TabledPairs THEN <<a, b>> \in SimilarPairs
    ELSE RatioAboveThreshold(a, b)

(***************************************************************************)
(* The classification of one block (the body of the loop of                *)
(* _extract_headings, lines 118-183).                                      *)
(***************************************************************************)
\* line 123
InHeaderFooter(block) ==
    \/ block.y0 * 100 > PageHeight * (100 - HeaderFooterPercent)
    \/ block.top * 100 < PageHeight * HeaderFooterPercent

\* line 126
TooShort(text) == Len(text) < 3 \/ ~HasAlpha(text)

\* line 129
MatchesTitle(text, ttl) ==
    Similar(text, ttl) \/ Lower(Strip(text)) = Lower(Strip(ttl))

\* line 134
IsTocHeader(text) == Contains(Lower(text), TocNeedle)

InTocWindowNoOffset(ix, detected, start) ==
    detected /\ start >= 0 /\ ix <= start + TocSkipPages

\* line 145
InTocWindow(ix, detected, start) ==
    detected /\ start >= 0 /\ ix <= start + TocSkipPages - 1

\* the reasons of lines 123-158, in the order they are appended
Reasons(block, text, ix, detected, start) ==
    LET flags == << <<InHeaderFooter(block), "header/footer region">>,
                    <<TooShort(text), "too short or no letters">>,
                    <<InTocWindow(ix, detected, start), "ToC page skipped">>,
                    <<DottedTocEntry(text), "dotted ToC entry">>,
                    <<VersionTableEntry(text), "version table entry">>,
                    <<BulletPoint(text), "bullet point">>,
                    <<NumberedParagraph(text), "numbered paragraph">> >>
        set   == SelectSeq(flags, LAMBDA f : f[1])
    IN  [k \in 1..Len(set) |-> set[k][2]]

\* lines 170-174
IsHeading(text, fontSize, isBold, score) ==
    \/ score >= MinHeadingScore * 1000 /\ (isBold \/ IsAllCaps(text))
    \/ WordCount(text) <= 10 /\ fontSize >= 10 * 100
    \/ TopLevelNumbered(text)
    \/ TwoLevelNumbered(text)

\* the score of the synthetic heading (line 141), times 1000
TocHeadingScore == 100 * 1000

\* what the loop body does with a block: the branch it takes, the text, the
\* reasons of a rejection and the candidate of an acceptance
Classify(block, spacing, ix, ttl, detected, start) ==
    LET text    == Strip(block.text)
        reasons == Reasons(block, text, ix, detected, start)
        score   == HeadingScore(text, block.size, block.bold, spacing)
        out(kind, rs, hs) == [kind |-> kind, page |-> ix, text |-> text,
                              reasons |-> rs, headings |-> hs]
    IN  IF MatchesTitle(text, ttl)
        THEN out("matches title", <<"matches title">>, << >>)
        ELSE IF IsTocHeader(text)
        THEN out("toc header", << >>,
                 <<[text |-> TocHeadingText, page |-> ix,
                    font_size |-> block.size, score |-> TocHeadingScore]>>)
        ELSE IF reasons # << >>
        THEN out("rejected", reasons, << >>)
        ELSE IF IsHeading(text, block.size, block.bold, score)
        THEN out("accepted", << >>,
                 <<[text |-> text, page |-> ix,
                    font_size |-> Round1(block.size), score |-> score]>>)
        ELSE out("low score", <<"low score">>, << >>)

(***************************************************************************)
(* _deduplicate_headings and _assign_heading_levels                        *)
(***************************************************************************)
IsDuplicateAnyPage(h, s) == Similar(Lower(h.text), Lower(s.text))

\* line 91
IsDuplicate(h, s) == h.page = s.page /\ Similar(Lower(h.text), Lower(s.text))

RECURSIVE Unique(_, _, _)
\* the loop of lines 88-96 from candidate k on, with the headings seen so far
Unique(hs, k, seen) ==
    IF k > Len(hs) THEN seen
    ELSE IF \E n \in 1..Len(seen) : IsDuplicate(hs[k], seen[n])
         THEN Unique(hs, k + 1, seen)
         ELSE Unique(hs, k + 1, Append(seen, hs[k]))

RECURSIVE InsertByPage(_, _)
InsertByPage(s, h) ==
    IF s = << >> THEN <<h>>
    ELSE IF h.page < s[1].page THEN <<h>> \o s
         ELSE <<s[1]>> \o InsertByPage(Tail(s), h)

RECURSIVE InsertByPageFirst(_, _)
InsertByPageFirst(s, h) ==
    IF s = << >> THEN <<h>>
    ELSE IF h.page <= s[1].page THEN <<h>> \o s
         ELSE <<s[1]>> \o InsertByPageFirst(Tail(s), h)

RECURSIVE SortedByPageUnstable(_)
SortedByPageUnstable(s) ==
    IF s = << >> THEN << >>
    ELSE InsertByPageFirst(SortedByPageUnstable(SubSeq(s, 1, Len(s) - 1)), s[Len(s)])

RECURSIVE SortedByPage(_)
\* sorted(unique, key=lambda h: h['page']), a stable sort (line 97)
SortedByPage(s) ==
    IF s = << >> THEN << >>
    ELSE InsertByPage(SortedByPage(SubSeq(s, 1, Len(s) - 1)), s[Len(s)])

\* _deduplicate_headings
DeduplicateHeadings(hs) == SortedByPage(Unique(hs, 1, << >>))

\* the index of size in sorted(sizes, reverse=True), from 0
RankAscending(size, sizes) == Cardinality({x \in sizes : x < size})

\* the index of size in sorted(sizes, reverse=True), from 0 (lines 79-80)
RankDescending(size, sizes) == Cardinality({x \in sizes : x > size})

\* _assign_heading_levels
AssignHeadingLevels(hs) ==
    LET font_sizes == {hs[k].font_size : k \in 1..Len(hs)}
    IN  [k \in 1..Len(hs) |->
            [text |-> hs[k].text, page |-> hs[k].page,
             font_size |-> hs[k].font_size, score |-> hs[k].score,
             level |-> "H" \o ToString(RankDescending(hs[k].font_size, font_sizes) + 1)]]

\* lines 187-189: the public heading
Public(hs) ==
    [k \in 1..Len(hs) |->
        [text |-> hs[k].text, page |-> hs[k].page, level |-> hs[k].level]]

(***************************************************************************)
(* The processor (PDFProcessor) and its caller (main.py).                  *)
(***************************************************************************)
VARIABLES
    family,           \* the family the documents are drawn from
    debug,            \* self.debug
    rejected_blocks,  \* self.rejected_blocks
    ndocs,            \* the documents main.py has handed to process_pdf
    pc,               \* where process_pdf is
    pdf,              \* the open document: page count, first page, metadata
    doc,              \* the blocks read so far, by page of pdf.pages[1:max_pages]
    title,            \* the local title of process_pdf; << >> before line 219
    i,                \* the loop index of line 104
    toc_detected,     \* line 101
    toc_start_page,   \* line 102
    headings,         \* the local headings of _extract_headings
    candidates,       \* headings as the loop left it (line 184)
    log,              \* the branch each block of this document took
    result            \* what process_pdf returned or raised

vars == <<family, debug, rejected_blocks, ndocs, pc, pdf, doc, title, i,
          toc_detected, toc_start_page, headings, candidates, log, result>>

\* self.max_pages
max_pages == MaxPages

NoPdf == [valid |-> FALSE, numPages |-> 0, first |-> FirstPage(<< >>, NoMetadata)]

NoResult == [kind |-> "none"]

\* line 229 around line 218
PageLimitError ==
    [kind |-> "error", message |-> "Failed to process PDF: ",
     cause |-> [type |-> "ValueError", message |-> "PDF exceeds pages.", pages |-> max_pages]]

\* line 229 around a failure of pdfplumber.open
DecodeError ==
    [kind |-> "error", message |-> "Failed to process PDF: ",
     cause |-> [type |-> "pdfplumber", message |-> "not a PDF", pages |-> 0]]

InitFamily(fam) ==
    /\ family = fam
    /\ debug \in BOOLEAN
    /\ rejected_blocks = << >>
    /\ ndocs = 0
    /\ pc = "idle"
    /\ pdf = NoPdf
    /\ doc = << >>
    /\ title = << >>
    /\ i = 0
    /\ toc_detected = FALSE
    /\ toc_start_page = -1
    /\ headings = << >>
    /\ candidates = << >>
    /\ log = << >>
    /\ result = NoResult

ExceedsPageLimitInclusive(numPages) == numPages >= max_pages

\* line 217
ExceedsPageLimit(numPages) == numPages > max_pages

\* len(pdf.pages[1:self.max_pages])
SliceLen(numPages) ==
    LET hi == IF numPages < max_pages THEN numPages ELSE max_pages
    IN  IF hi > 1 THEN hi - 1 ELSE 0

\* the page counts of the documents: a lone first page, the cap, one page more
PageCounts == {1, max_pages, max_pages + 1}

\* main.py hands the next file to process_pdf
CanCall == pc \in {"idle", "done", "failed"} /\ ndocs < DocsOf(family)

\* the locals of a call before its first statement
EnterCall(p) ==
    /\ ndocs' = ndocs + 1
    /\ pdf' = p
    /\ doc' = << >>
    /\ i' = 0
    /\ toc_detected' = FALSE
    /\ toc_start_page' = -1
    /\ headings' = << >>
    /\ candidates' = << >>
    /\ log' = << >>
    /\ UNCHANGED <<family, debug, rejected_blocks>>

\* lines 214-216, 228-229: the bytes are no PDF
ProcessPdfDecodeError ==
    /\ CanCall
    /\ EnterCall(NoPdf)
    /\ title' = << >>
    /\ result' = DecodeError
    /\ pc' = "failed"

\* lines 214-218, 228-229: the page cap
ProcessPdfPageLimit ==
    /\ CanCall
    /\ \E n \in PageCounts, fp \in FirstPages(family) :
          /\ ExceedsPageLimit(n)
          /\ EnterCall([valid |-> TRUE, numPages |-> n, first |-> fp])
    /\ title' = << >>
    /\ result' = PageLimitError
    /\ pc' = "failed"

\* lines 214-220, 100-104: the title, and the loop entered
ProcessPdfBegin ==
    /\ CanCall
    /\ \E n \in PageCounts, fp \in FirstPages(family) :
          LET p == [valid |-> TRUE, numPages |-> n, first |-> fp]
          IN  /\ ~ExceedsPageLimit(n)
              /\ EnterCall(p)
              /\ title' = ExtractTitle(p)
              /\ pc' = IF SliceLen(n) > 0 THEN "pages" ELSE "dedup"
    /\ result' = NoResult

BlocksRead == Len(log)

\* the page of loop index i is doc[i + 1]
CurrentPage == IF Len(doc) = i + 1 THEN doc[i + 1] ELSE << >>

\* lines 114-183: the next block of the page, in the order of line 40
ClassifyBlock ==
    /\ pc = "pages"
    /\ BlocksRead < BlocksOf(family)
    /\ \E tp \in Menu(family, i), y \in YLevels(family) :
          LET page    == CurrentPage
              first   == page = << >>
              above   == IF first THEN y ELSE page[Len(page)].y0
              block   == MkBlock(tp.text, y, tp.size, tp.bold)
              \* _calculate_vertical_spacing: the nearest baseline above
              spacing == above - y
              out     == Classify(block, spacing, i, title, toc_detected, toc_start_page)
          IN  /\ first \/ above - y > BlockGapTolerance * 100
              /\ doc' = IF first THEN Append(doc, <<block>>)
                        ELSE [doc EXCEPT ![i + 1] = Append(page, block)]
              /\ log' = Append(log, [kind |-> out.kind, page |-> out.page,
                                     text |-> out.text, reasons |-> out.reasons])
              /\ headings' = headings \o out.headings
              /\ rejected_blocks' =
                    IF debug /\ out.kind \in {"matches title", "rejected", "low score"}
                    THEN Append(rejected_blocks,
                                [page |-> out.page, text |-> out.text, reasons |-> out.reasons])
                    ELSE rejected_blocks
              /\ toc_detected' = (toc_detected \/ out.kind = "toc header")
              /\ toc_start_page' = IF out.kind = "toc header" THEN i ELSE toc_start_page
    /\ UNCHANGED <<family, debug, ndocs, pc, pdf, title, i, candidates, result>>

\* line 104: the next page of the slice, or the end of the loop
NextPage ==
    /\ pc = "pages"
    /\ i' = i + 1
    /\ doc' = IF Len(doc) = i + 1 THEN doc ELSE Append(doc, << >>)
    /\ pc' = IF i + 1 < SliceLen(pdf.numPages) THEN "pages" ELSE "dedup"
    /\ UNCHANGED <<family, debug, rejected_blocks, ndocs, pdf, title,
                   toc_detected, toc_start_page, headings, candidates, log, result>>

\* line 185
Deduplicate ==
    /\ pc = "dedup"
    /\ candidates' = headings
    /\ headings' = DeduplicateHeadings(headings)
    /\ pc' = "levels"
    /\ UNCHANGED <<family, debug, rejected_blocks, ndocs, pdf, doc, title, i,
                   toc_detected, toc_start_page, log, result>>

\* line 186
AssignLevels ==
    /\ pc = "levels"
    /\ headings' = AssignHeadingLevels(headings)
    /\ pc' = "return"
    /\ UNCHANGED <<family, debug, rejected_blocks, ndocs, pdf, doc, title, i,
                   toc_detected, toc_start_page, candidates, log, result>>

\* lines 187-190, 221-227; headings keeps the fields the loop of 187 pops
Return ==
    /\ pc = "return"
    /\ result' = IF debug
                 THEN [kind |-> "ok", title |-> title, outline |-> Public(headings),
                       rejected |-> rejected_blocks]
                 ELSE [kind |-> "ok", title |-> title, outline |-> Public(headings)]
    /\ pc' = "done"
    /\ UNCHANGED <<family, debug, rejected_blocks, ndocs, pdf, doc, title, i,
                   toc_detected, toc_start_page, headings, candidates, log>>

Next ==
    \/ ProcessPdfDecodeError
    \/ ProcessPdfPageLimit
    \/ ProcessPdfBegin
    \/ ClassifyBlock
    \/ NextPage
    \/ Deduplicate
    \/ AssignLevels
    \/ Return

Init == InitFamily("patterns")
Spec == Init /\ [][Next]_vars

InitToc == InitFamily("toc")
SpecToc == InitToc /\ [][Next]_vars

InitDedup == InitFamily("dedup")
SpecDedup == InitDedup /\ [][Next]_vars

InitLevels == InitFamily("levels")
SpecLevels == InitLevels /\ [][Next]_vars

InitBatch == InitFamily("batch")
SpecBatch == InitBatch /\ [][Next]_vars

(***************************************************************************)
(* What the claims speak of.                                               *)
(***************************************************************************)
Returned == pc = "done" /\ result.kind = "ok"

\* the outline of the last result
Outline == result.outline

\* the rejection records the blocks of this document give rise to
RejectionsOfDocument ==
    LET recs == SelectSeq(log, LAMBDA e : e.kind \in {"matches title", "rejected", "low score"})
    IN  [k \in 1..Len(recs) |->
            [page |-> recs[k].page, text |-> recs[k].text, reasons |-> recs[k].reasons]]

\* the blocks of the page of 0-based index n of the document; page 0 is the
\* first page, which holds no block, and page n >= 1 is pdf.pages[1:][n - 1]
BlocksOfPage(n) == IF n >= 1 /\ n <= Len(doc) THEN doc[n] ELSE << >>

\* the block a heading or a rejection record of text t can come from
ComesFrom(block, t) ==
    \/ Strip(block.text) = t
    \/ t = TocHeadingText /\ IsTocHeader(Strip(block.text))

OnPage(n, t) ==
    \E k \in 1..Len(BlocksOfPage(n)) : ComesFrom(BlocksOfPage(n)[k], t)

\* the candidates deduplication keeps: those of the outline, each at its
\* first occurrence among the candidates
SameEntry(g, h) == g.text = h.text /\ g.page = h.page

KeptCandidates ==
    {k \in 1..Len(candidates) :
        /\ \E n \in 1..Len(Outline) : SameEntry(candidates[k], Outline[n])
        /\ \A m \in 1..(k - 1) : ~SameEntry(candidates[m], candidates[k])}

\* the candidate a heading of the outline was discovered as
DiscoveredAt(n) ==
    CHOOSE k \in 1..Len(candidates) :
        /\ SameEntry(candidates[k], Outline[n])
        /\ \A m \in 1..(k - 1) : ~SameEntry(candidates[m], candidates[k])

SimilarTexts(g, h) == Similar(Lower(g.text), Lower(h.text))

HasReason(e, reason) == \E k \in 1..Len(e.reasons) : e.reasons[k] = reason

\* the number n of a level label "Hn"
LevelNumber(level) == CHOOSE n \in 1..(2 * MaxBlocks + 1) : level = "H" \o ToString(n)

(***************************************************************************)
(* C1: no heading of a returned outline is similar (ratio > 0.85) to the   *)
(* returned title, the synthetic "Table of Contents" heading included.     *)
(***************************************************************************)
C1_NoTitleLeakage ==
    Returned =>
        \A k \in 1..Len(Outline) : ~Similar(Outline[k].text, result.title)

(***************************************************************************)
(* C2: every heading of a returned outline has a level among H1..H5,       *)
(* however many distinct font sizes the headings have.                     *)
(***************************************************************************)
C2_LevelsH1ToH5 ==
    Returned =>
        \A k \in 1..Len(Outline) : Outline[k].level \in {"H1", "H2", "H3", "H4", "H5"}

(***************************************************************************)
(* C3: the page of every heading and of every rejection record is the      *)
(* 0-based index in the document of the page its block is on, so it is     *)
(* never 0, the index of the first page.                                   *)
(***************************************************************************)
C3_PageIsDocumentIndex ==
    /\ Returned =>
          \A k \in 1..Len(Outline) :
              Outline[k].page >= 1 /\ OnPage(Outline[k].page, Outline[k].text)
    /\ \A k \in 1..Len(RejectionsOfDocument) :
          /\ RejectionsOfDocument[k].page >= 1
          /\ OnPage(RejectionsOfDocument[k].page, RejectionsOfDocument[k].text)

(***************************************************************************)
(* C4: no two headings of a returned outline on one page have similar      *)
(* lower-cased texts; a candidate is dropped exactly when a candidate      *)
(* kept before it is on the same page and similar to it, so never for a    *)
(* candidate of another page.                                              *)
(***************************************************************************)
C4_NoSamePageDuplicates ==
    Returned =>
        /\ \A m, n \in 1..Len(Outline) :
              (m < n /\ Outline[m].page = Outline[n].page)
                  => ~SimilarTexts(Outline[n], Outline[m])
        /\ Len(Outline) = Cardinality(KeptCandidates)
        /\ \A k \in 1..Len(candidates) :
              k \in KeptCandidates <=>
                  ~\E m \in KeptCandidates :
                      /\ m < k
                      /\ candidates[m].page = candidates[k].page
                      /\ SimilarTexts(candidates[k], candidates[m])

C4_Witness ==
    /\ Returned
    /\ Len(Outline) < Len(candidates)
    /\ \E m, n \in 1..Len(Outline) :
          /\ m < n
          /\ Outline[m].page # Outline[n].page
          /\ SimilarTexts(Outline[n], Outline[m])

(***************************************************************************)
(* C5: a returned outline is non-decreasing in page, holds exactly the     *)
(* candidates deduplication keeps, and lists the headings of one page in   *)
(* the order their blocks were discovered.                                 *)
(***************************************************************************)
C5_PageOrder ==
    Returned =>
        /\ \A m, n \in 1..Len(Outline) : m < n => Outline[m].page <= Outline[n].page
        /\ \A n \in 1..Len(Outline) :
              \E k \in 1..Len(candidates) : SameEntry(candidates[k], Outline[n])
        /\ \A m, n \in 1..Len(Outline) : m < n => DiscoveredAt(m) < DiscoveredAt(n)

C5_Witness ==
    /\ Returned
    /\ \E m, n \in 1..Len(Outline) : m < n /\ Outline[m].page = Outline[n].page
    /\ \E m, n \in 1..Len(Outline) : Outline[m].page < Outline[n].page

(***************************************************************************)
(* C6: a document of more than max_pages pages fails with the wrapped      *)
(* page-limit error before the title or any block is looked at, leaves no  *)
(* result and records no rejection; a document of max_pages pages or       *)
(* fewer does not fail.                                                    *)
(***************************************************************************)
C6_PageCap ==
    /\ [](pdf.valid =>
            IF pdf.numPages > max_pages
            THEN /\ pc = "failed"
                 /\ result = PageLimitError
                 /\ title = << >> /\ log = << >> /\ headings = << >> /\ doc = << >>
            ELSE pc # "failed" /\ result.kind # "error")
    /\ [][pc' = "failed" => rejected_blocks' = rejected_blocks]_vars

C6_Witness ==
    /\ pc = "failed"
    /\ pdf.valid
    /\ pdf.numPages = max_pages + 1
    /\ rejected_blocks # << >>

(***************************************************************************)
(* C7: what process_pdf returns for a document does not depend on the      *)
(* documents the processor was given before: the rejected list of a        *)
(* result holds the rejection records of the blocks of that document and   *)
(* no others.                                                              *)
(***************************************************************************)
C7_NoSharedState ==
    (Returned /\ debug) => result.rejected = RejectionsOfDocument

(***************************************************************************)
(* C8: a block whose text matches the top-level numbered-heading pattern,  *)
(* outside the header/footer region, not matching the title and not on a   *)
(* ToC-suppressed page, becomes a heading candidate and is not rejected    *)
(* as a numbered paragraph.                                                *)
(***************************************************************************)
C8_NumberedHeadingWins ==
    \A k \in 1..Len(log) :
        ( /\ TopLevelNumbered(log[k].text)
          /\ log[k].kind # "matches title"
          /\ ~HasReason(log[k], "header/footer region")
          /\ ~HasReason(log[k], "ToC page skipped") )
        => (log[k].kind = "accepted" /\ ~HasReason(log[k], "numbered paragraph"))

TocHeaderBefore(k, reach) ==
    \E m \in 1..(k - 1) :
        log[m].kind = "toc header" /\ log[k].page <= log[m].page + reach

C10_WindowOfSkipPagesAfter ==
    \A k \in 1..Len(log) :
        log[k].kind \notin {"matches title", "toc header"}
            => (HasReason(log[k], "ToC page skipped") <=> TocHeaderBefore(k, TocSkipPages))

(***************************************************************************)
(* C10, amended: such a block is flagged exactly when its page is at most  *)
(* p + toc_skip_pages - 1 for a ToC header seen before it on page p (the   *)
(* window is toc_skip_pages pages long and starts with the ToC page); a    *)
(* flagged block is rejected and yields no heading.                        *)
(***************************************************************************)
C10_WindowOfSkipPages ==
    /\ \A k \in 1..Len(log) :
          log[k].kind \notin {"matches title", "toc header"}
              => /\ HasReason(log[k], "ToC page skipped")
                        <=> TocHeaderBefore(k, TocSkipPages - 1)
                 /\ HasReason(log[k], "ToC page skipped") => log[k].kind = "rejected"
    /\ pc = "pages" =>
          Len(headings) = Cardinality({k \in 1..Len(log) :
                                          log[k].kind \in {"toc header", "accepted"}})

C10_Witness ==
    \E m, k, n \in 1..Len(log) :
        /\ m < k /\ k < n
        /\ log[m].kind = "toc header"
        /\ log[k].page = log[m].page + TocSkipPages - 1
        /\ log[k].kind = "rejected" /\ HasReason(log[k], "ToC page skipped")
        /\ log[n].page = log[m].page + TocSkipPages
        /\ log[n].kind = "accepted"

====
